---- MODULE Spec2Model ----
(***************************************************************************)
(* PROPFIND and DELETE request handling of Radicale                        *)
(* (radicale/app/propfind.py, radicale/app/delete.py, radicale/hook).      *)
(*                                                                         *)
(* Worker threads serve requests against one shared storage tree.  Each    *)
(* request is a small state machine (field pc); the storage, the rights    *)
(* backend and the store-wide lock are the collaborators of spec.md s.6.   *)
(***************************************************************************)
EXTENDS Naturals, Sequences, FiniteSets, TLC

\* Number of items the calendar u/cal holds initially.
NumItems == 2

\* Worker threads serving requests concurrently.
Reqs == {"t1", "t2"}

----------------------------------------------------------------------------
(* The storage tree: three collections and their items.                    *)

HrefPool == <<"a", "b", "c", "d">>
CalItems == {HrefPool[i] : i \in 1..NumItems}

PPrincipal == <<"u">>
PCal == <<"u", "cal">>
PPub == <<"pub">>
Collections == {PPrincipal, PCal, PPub}

\* Enumeration order of the storage (get_all, discover).
HrefOrder == HrefPool \o <<"x">>
CollOrder == <<PPrincipal, PCal, PPub>>

InitMembers(c) ==
    IF c = PCal THEN CalItems ELSE IF c = PPub THEN {"x"} ELSE {}

\* get_meta("tag"): "" stands for an absent tag.
Tag(c) ==
    IF c = PCal THEN "VCALENDAR" ELSE IF c = PPub THEN "VADDRESSBOOK" ELSE ""

IsPrincipal(c) == c = PPrincipal

\* collection.owner: "" stands for no owner.
Owner(c) == IF c = PPub THEN "" ELSE "u"

Enum(members) == SelectSeq(HrefOrder, LAMBDA h : h \in members)

RECURSIVE Concat(_)
Concat(s) == IF s = <<>> THEN "" ELSE Head(s) \o Concat(Tail(s))

\* Item attributes (fixed by the item's content, which no operation here edits).
Uid(href) == "uid-" \o href
ItemEtag(href) == "e-" \o href
ItemBody(href) == "BEGIN:" \o href \o ";"
ItemLastModified(href) == "t0"

\* A collection's etag and serialization are functions of its member set.
CollEtag(members) == "c-" \o Concat(Enum(members))
CollBody(members) == Concat([i \in 1..Len(Enum(members)) |-> ItemBody(Enum(members)[i])])

NoResource == [kind |-> "none", path |-> <<>>]
CollectionAt(p) == [kind |-> "collection", path |-> p]
ItemAt(p) == [kind |-> "item", path |-> p]

ParentPath(p) == IF p = <<>> THEN <<>> ELSE SubSeq(p, 1, Len(p) - 1)
Href(p) == p[Len(p)]

InitStore ==
    [c \in Collections |->
        [members |-> InitMembers(c), etag |-> CollEtag(InitMembers(c)), mtime |-> 0]]

\* storage.discover(path, depth): the addressed resource first, then (depth
\* "1") the items of the collection and its child collections.
ChildCollections(st, p) ==
    SelectSeq(CollOrder, LAMBDA c : c \in DOMAIN st /\ c # p /\ ParentPath(c) = p)

Discover(st, p, depth) ==
    IF p \in DOMAIN st
    THEN <<CollectionAt(p)>> \o
         (IF depth = "1"
          THEN [i \in 1..Len(Enum(st[p].members)) |->
                    ItemAt(Append(p, Enum(st[p].members)[i]))]
               \o [i \in 1..Len(ChildCollections(st, p)) |->
                    CollectionAt(ChildCollections(st, p)[i])]
          ELSE <<>>)
    ELSE IF Len(p) >= 1 /\ ParentPath(p) \in DOMAIN st
            /\ Href(p) \in st[ParentPath(p)].members
    THEN <<ItemAt(p)>>
    ELSE <<>>

\* next(discover(path), None)
FirstDiscovered(st, p, depth) ==
    IF Discover(st, p, depth) = <<>> THEN NoResource ELSE Head(Discover(st, p, depth))

\* item.etag
EtagOf(st, res) ==
    IF res.kind = "collection" THEN st[res.path].etag ELSE ItemEtag(Href(res.path))

\* collection.get_all(): the items of the collection, in storage order.
GetAll(st, c) == Enum(st[c].members)

\* collection.delete(href), first half: the content is removed.
StorageDeleteContent(st, c, href) ==
    IF href = ""
    THEN [st EXCEPT ![c].members = {}]
    ELSE [st EXCEPT ![c].members = @ \ {href}]

\* collection.delete(href), second half: the collection is removed (with the
\* collections below it), or its etag and modification time are refreshed.
StorageDeleteFinish(st, c, href) ==
    IF href = ""
    THEN [d \in {x \in DOMAIN st : ~(Len(x) >= Len(c) /\ SubSeq(x, 1, Len(c)) = c)}
            |-> st[d]]
    ELSE [st EXCEPT ![c].etag = CollEtag(st[c].members), ![c].mtime = @ + 1]

----------------------------------------------------------------------------
(* The rights backend and app.Access.                                      *)

Users == {"", "u"}

\* rights.authorization(user, path): the permission symbols granted.
Authorization(user, p) ==
    IF user = "u"
    THEN IF p = PPrincipal THEN {"R", "w"}
         ELSE IF Len(p) >= 1 /\ p[1] \in {"u", "pub"} THEN {"r", "w"}
         ELSE {"R"}
    ELSE IF p = PPrincipal THEN {"R"}
         ELSE IF Len(p) >= 1 /\ p[1] = "pub" THEN {"r"}
         ELSE {}

\* rights.intersect
Intersect(a, b) == a \cap b

Upper(permission) == IF permission = "r" THEN "R" ELSE "W"

\* app.Access(rights, user, path).check(permission, item)
AccessCheck(user, p, permission, res) ==
    LET permissions == Authorization(user, p)
        parent_permissions == Authorization(user, ParentPath(p))
        wanted ==
            IF res.kind = "none" THEN {permission, Upper(permission)}
            ELSE IF res.kind = "collection"
            THEN (IF Tag(res.path) # "" THEN {permission} ELSE {Upper(permission)})
            ELSE {}
        parent_wanted ==
            IF res.kind = "collection" THEN {} ELSE {permission}
    IN  \/ Intersect(permissions, wanted) # {}
        \/ (p # ParentPath(p) /\ Intersect(parent_permissions, parent_wanted) # {})

----------------------------------------------------------------------------
(* The hook: HookNotificationItem and its point.                           *)

\* hook._cleanup(path): the first two segments, "" when there are fewer.
Cleanup(p) == IF Len(p) < 2 THEN "" ELSE p[1] \o "/" \o p[2]

NoContext == "None"
Contexts == {NoContext, "ctx"}

\* HookNotificationItem(notification_item_type, path, content, context)
HookNotificationItem(type, p, content, context) ==
    [type |-> type, point |-> Cleanup(p), content |-> content, context |-> context]

HookDelete == "delete"

----------------------------------------------------------------------------
(* xmlutils: qualified names, hrefs, status lines.                         *)

None == "<None>"

Namespace(prefix) ==
    CASE prefix = "D" -> "DAV:"
      [] prefix = "C" -> "urn:ietf:params:xml:ns:caldav"
      [] prefix = "CR" -> "urn:ietf:params:xml:ns:carddav"
      [] prefix = "CS" -> "http://calendarserver.org/ns/"
      [] prefix = "ICAL" -> "http://apple.com/ns/ical/"
      [] prefix = "RADICALE" -> "http://radicale.org/ns/"
      [] OTHER -> prefix

Prefix(ns) ==
    CASE ns = "DAV:" -> "D"
      [] ns = "urn:ietf:params:xml:ns:caldav" -> "C"
      [] ns = "urn:ietf:params:xml:ns:carddav" -> "CR"
      [] ns = "http://calendarserver.org/ns/" -> "CS"
      [] ns = "http://apple.com/ns/ical/" -> "ICAL"
      [] ns = "http://radicale.org/ns/" -> "RADICALE"
      [] OTHER -> ns

\* A human tag is <<prefix, name>> ("D:getetag"), a Clark tag <<namespace, name>>.
MakeClark(human) == <<Namespace(human[1]), human[2]>>
MakeHumanTag(clark) == <<Prefix(clark[1]), clark[2]>>

D(name) == MakeClark(<<"D", name>>)
C(name) == MakeClark(<<"C", name>>)
CR(name) == MakeClark(<<"CR", name>>)
CS(name) == MakeClark(<<"CS", name>>)
RADICALE(name) == MakeClark(<<"RADICALE", name>>)

RECURSIVE Join(_)
Join(p) == IF p = <<>> THEN "" ELSE IF Len(p) = 1 THEN p[1]
           ELSE p[1] \o "/" \o Join(Tail(p))

\* pathutils.unstrip_path(sane_path, trailing_slash)
UnstripPath(sane, trailing_slash) ==
    IF sane = "" THEN "/" ELSE "/" \o sane \o (IF trailing_slash THEN "/" ELSE "")

BasePrefix == ""

\* xmlutils.make_href(base_prefix, href)
MakeHref(base_prefix, href) == base_prefix \o href

\* The path of a request as the handlers receive it.
RequestPath(p) == UnstripPath(Join(p), FALSE)

\* xmlutils.make_response(code)
MakeResponse(is404) == IF is404 THEN "HTTP/1.1 404 Not Found" ELSE "HTTP/1.1 200 OK"

\* xmlutils.MIMETYPES
MimeType(tag) == IF tag = "VADDRESSBOOK" THEN "text/vcard" ELSE "text/calendar"

----------------------------------------------------------------------------
(* What xml_propfind_response reads from a discovered resource.            *)

TagKey == <<"", "tag">>
DisplayNameKey == <<"D", "displayname">>

\* The metadata of a collection, in storage order: <<human tag, value>>.
Meta(c) ==
    (IF Tag(c) # "" THEN << <<TagKey, Tag(c)>> >> ELSE <<>>)
    \o (IF c = PCal THEN << <<DisplayNameKey, "Work">> >> ELSE <<>>)

RECURSIVE MetaLookup(_, _)
MetaLookup(meta, key) ==
    IF meta = <<>> THEN None
    ELSE IF Head(meta)[1] = key THEN Head(meta)[2]
    ELSE MetaLookup(Tail(meta), key)

\* The resource as the property code sees it: a collection or an item with
\* its owning collection.
View(st, res) ==
    LET coll == IF res.kind = "collection" THEN res.path ELSE ParentPath(res.path)
        gone == coll \notin DOMAIN st
        members == IF gone THEN {} ELSE st[coll].members
    IN  [is_collection |-> res.kind = "collection",
         is_principal |-> IsPrincipal(coll),
         owner |-> Owner(coll),
         meta |-> IF res.kind = "collection" THEN Meta(coll) ELSE <<>>,
         path |-> Join(coll),
         href |-> IF res.kind = "collection" THEN "" ELSE Href(res.path),
         etag |-> IF res.kind = "collection"
                  THEN (IF gone THEN None ELSE st[coll].etag)
                  ELSE ItemEtag(Href(res.path)),
         last_modified |-> IF res.kind = "collection"
                           THEN (IF gone THEN None ELSE "t" \o ToString(st[coll].mtime))
                           ELSE ItemLastModified(Href(res.path)),
         body |-> IF res.kind = "collection" THEN CollBody(members)
                  ELSE ItemBody(Href(res.path)),
         content_type |-> IF coll = PPub THEN "text/vcard;charset=utf-8"
                          ELSE "text/calendar;charset=utf-8;component=VEVENT",
         sync_token |-> "http://radicale.org/ns/sync/" \o
                        (IF gone THEN None ELSE st[coll].etag)]

\* item.get_meta(key)
GetMeta(v, key) == MetaLookup(v.meta, key)

IsLeaf(v) == GetMeta(v, TagKey) \in {"VADDRESSBOOK", "VCALENDAR"}

----------------------------------------------------------------------------
(* xml_propfind_response.                                                  *)

PrincipalProps ==
    {C("calendar-user-address-set"), D("principal-URL"),
     CR("addressbook-home-set"), C("calendar-home-set")}

\* The loop over the metadata that completes the property list of
\* allprop and propname.
RECURSIVE AppendMetaProps(_, _)
AppendMetaProps(props, meta) ==
    IF meta = <<>> THEN props
    ELSE IF Head(meta)[1] = TagKey THEN AppendMetaProps(props, Tail(meta))
    ELSE IF \E i \in 1..Len(props) : props[i] = MakeClark(Head(meta)[1])
    THEN AppendMetaProps(props, Tail(meta))
    ELSE AppendMetaProps(Append(props, MakeClark(Head(meta)[1])), Tail(meta))

\* "if propname or allprop": all properties the code below can retrieve.
CatalogProps(v) ==
    AppendMetaProps(
        <<D("principal-collection-set"), D("current-user-principal"),
          D("current-user-privilege-set"), D("supported-report-set"),
          D("resourcetype"), D("owner")>>
        \o (IF v.is_collection /\ v.is_principal
            THEN <<C("calendar-user-address-set"), D("principal-URL"),
                   CR("addressbook-home-set"), C("calendar-home-set")>>
            ELSE <<>>)
        \o (IF ~v.is_collection \/ IsLeaf(v)
            THEN <<D("getetag"), D("getlastmodified"), D("getcontenttype"),
                   D("getcontentlength")>>
            ELSE <<>>)
        \o (IF v.is_collection /\ IsLeaf(v)
            THEN <<D("displayname"), D("sync-token")>> ELSE <<>>)
        \o (IF v.is_collection /\ GetMeta(v, TagKey) = "VCALENDAR"
            THEN <<CS("getctag"), C("supported-calendar-component-set")>>
            ELSE <<>>),
        IF v.is_collection THEN v.meta ELSE <<>>)

Elem(tag, text, children, is404) ==
    [tag |-> tag, text |-> text, children |-> children, is404 |-> is404]

HrefChild(href) == <<"D:href", href>>

Privileges(write) ==
    <<"D:read">> \o
    (IF write THEN <<"D:all", "D:write", "D:write-properties", "D:write-content">>
     ELSE <<>>)

Reports(v) ==
    <<"D:expand-property", "D:principal-search-property-set",
      "D:principal-property-search">>
    \o (IF v.is_collection /\ IsLeaf(v)
        THEN <<"D:sync-collection">> \o
             (IF GetMeta(v, TagKey) = "VADDRESSBOOK"
              THEN <<"CR:addressbook-multiget", "CR:addressbook-query">>
              ELSE IF GetMeta(v, TagKey) = "VCALENDAR"
              THEN <<"C:calendar-multiget", "C:calendar-query">>
              ELSE <<>>)
        ELSE <<>>)

\* meta.split(",") of the component set; the stored values hold no comma.
Components(meta) ==
    IF meta # None /\ meta # "" THEN <<meta>> ELSE <<"VTODO", "VEVENT", "VJOURNAL">>

\* A D:displayname branch without the fallback to the path.
DisplayNamePropStoredOnly(v) ==
    LET displayname == GetMeta(v, DisplayNameKey)
    IN  IF displayname # None THEN Elem(D("displayname"), displayname, <<>>, FALSE)
        ELSE Elem(D("displayname"), None, <<>>, TRUE)

\* The D:displayname branch of a collection: "not displayname" is true of
\* None and of the empty string.
DisplayNameProp(v) ==
    LET stored == GetMeta(v, DisplayNameKey)
        displayname == IF stored \in {None, ""} /\ IsLeaf(v) THEN v.path ELSE stored
    IN  IF displayname # None THEN Elem(D("displayname"), displayname, <<>>, FALSE)
        ELSE Elem(D("displayname"), None, <<>>, TRUE)

\* The branches under "elif is_collection:".
CollectionProp(tag, v) ==
    IF tag = D("getcontenttype")
    THEN (IF IsLeaf(v) THEN Elem(tag, MimeType(GetMeta(v, TagKey)), <<>>, FALSE)
          ELSE Elem(tag, None, <<>>, TRUE))
    ELSE IF tag = D("resourcetype")
    THEN Elem(tag, None,
              (IF v.is_principal THEN << <<"D:principal">> >> ELSE <<>>)
              \o (IF IsLeaf(v)
                  THEN (IF GetMeta(v, TagKey) = "VADDRESSBOOK"
                        THEN << <<"CR:addressbook">> >>
                        ELSE IF GetMeta(v, TagKey) = "VCALENDAR"
                        THEN << <<"C:calendar">> >> ELSE <<>>)
                  ELSE <<>>)
              \o << <<"D:collection">> >>, FALSE)
    ELSE IF tag = RADICALE("displayname")
    THEN (IF GetMeta(v, DisplayNameKey) # None
          THEN Elem(tag, GetMeta(v, DisplayNameKey), <<>>, FALSE)
          ELSE Elem(tag, None, <<>>, TRUE))
    ELSE IF tag = D("displayname")
    THEN DisplayNameProp(v)
    ELSE IF tag = CS("getctag")
    THEN (IF IsLeaf(v) THEN Elem(tag, v.etag, <<>>, FALSE)
          ELSE Elem(tag, None, <<>>, TRUE))
    ELSE IF tag = D("sync-token")
    THEN (IF IsLeaf(v) THEN Elem(tag, v.sync_token, <<>>, FALSE)
          ELSE Elem(tag, None, <<>>, TRUE))
    ELSE (IF GetMeta(v, MakeHumanTag(tag)) # None
          THEN Elem(tag, GetMeta(v, MakeHumanTag(tag)), <<>>, FALSE)
          ELSE Elem(tag, None, <<>>, TRUE))

\* A branch that reports not-found for an unauthenticated caller.
CurrentUserPrincipalNotFound(user) ==
    IF user # ""
    THEN Elem(D("current-user-principal"), None,
              <<HrefChild(MakeHref(BasePrefix, "/" \o user \o "/"))>>, FALSE)
    ELSE Elem(D("current-user-principal"), None, <<>>, TRUE)

\* The D:current-user-principal branch.
CurrentUserPrincipal(user) ==
    IF user # ""
    THEN Elem(D("current-user-principal"), None,
              <<HrefChild(MakeHref(BasePrefix, "/" \o user \o "/"))>>, FALSE)
    ELSE Elem(D("current-user-principal"), None, << <<"D:unauthenticated">> >>, FALSE)

\* Item branches that answer a name they do not know with an empty element.
ItemPropUnknownFound(tag, v) ==
    IF tag = D("getcontenttype")
    THEN Elem(tag, v.content_type, <<>>, FALSE)
    ELSE Elem(tag, None, <<>>, FALSE)

\* The branches under "Not for collections".
ItemProp(tag, v) ==
    IF tag = D("getcontenttype")
    THEN Elem(tag, v.content_type, <<>>, FALSE)
    ELSE IF tag = D("resourcetype")
    THEN Elem(tag, None, <<>>, FALSE)
    ELSE Elem(tag, None, <<>>, TRUE)

\* An owner branch that reports not-found when there is no owner.
OwnerPropNotFound(v) ==
    IF v.owner # ""
    THEN Elem(D("owner"), None,
              <<HrefChild(MakeHref(BasePrefix, "/" \o v.owner \o "/"))>>, FALSE)
    ELSE Elem(D("owner"), None, <<>>, TRUE)

\* The D:owner branch: an empty element when no owner is available.
OwnerProp(v) ==
    Elem(D("owner"), None,
         IF v.owner # ""
         THEN <<HrefChild(MakeHref(BasePrefix, "/" \o v.owner \o "/"))>>
         ELSE <<>>, FALSE)

\* A test that takes every resource for content-bearing.
ContentBearingAlways(v) == TRUE

\* "if not is_collection or is_leaf"
ContentBearing(v) == ~v.is_collection \/ IsLeaf(v)

\* One pass of "for tag in props": the element and its bucket.
EvalProp(tag, v, user, write, request_path) ==
    IF tag = D("getetag")
    THEN (IF ContentBearing(v) THEN Elem(tag, v.etag, <<>>, FALSE)
          ELSE Elem(tag, None, <<>>, TRUE))
    ELSE IF tag = D("getlastmodified")
    THEN (IF ContentBearing(v) THEN Elem(tag, v.last_modified, <<>>, FALSE)
          ELSE Elem(tag, None, <<>>, TRUE))
    ELSE IF tag = D("principal-collection-set")
    THEN Elem(tag, None, <<HrefChild(MakeHref(BasePrefix, "/"))>>, FALSE)
    ELSE IF tag \in PrincipalProps /\ v.is_principal /\ v.is_collection
    THEN Elem(tag, None, <<HrefChild(MakeHref(BasePrefix, request_path))>>, FALSE)
    ELSE IF tag = C("supported-calendar-component-set")
    THEN (IF v.is_collection /\ IsLeaf(v)
          THEN Elem(tag, None,
                    [i \in 1..Len(Components(GetMeta(v, MakeHumanTag(tag)))) |->
                        <<"C:comp", Components(GetMeta(v, MakeHumanTag(tag)))[i]>>],
                    FALSE)
          ELSE Elem(tag, None, <<>>, TRUE))
    ELSE IF tag = D("current-user-principal")
    THEN CurrentUserPrincipal(user)
    ELSE IF tag = D("current-user-privilege-set")
    THEN Elem(tag, None,
              [i \in 1..Len(Privileges(write)) |-> <<"D:privilege", Privileges(write)[i]>>],
              FALSE)
    ELSE IF tag = D("supported-report-set")
    THEN Elem(tag, None,
              [i \in 1..Len(Reports(v)) |->
                  <<"D:supported-report", "D:report", Reports(v)[i]>>],
              FALSE)
    ELSE IF tag = D("getcontentlength")
    THEN (IF ContentBearing(v)
          THEN Elem(tag, ToString(Len(v.body)), <<>>, FALSE)
          ELSE Elem(tag, None, <<>>, TRUE))
    ELSE IF tag = D("owner")
    THEN OwnerProp(v)
    ELSE IF v.is_collection
    THEN CollectionProp(tag, v)
    ELSE ItemProp(tag, v)

\* "Only use one of props, propname and allprops"
ModesConflict(props, propname, allprop) ==
    (propname /\ allprop) \/ (props # <<>> /\ (propname \/ allprop))

\* Blocks for both buckets, whether filled or not.
PropstatsBoth(evs) ==
    LET first == IF evs = <<>> THEN <<>>
                 ELSE IF evs[1].is404 THEN <<TRUE, FALSE>> ELSE <<FALSE, TRUE>>
    IN  [k \in 1..Len(first) |->
            [status |-> MakeResponse(first[k]),
             props |-> SelectSeq(evs, LAMBDA e : e.is404 = first[k])]]

\* The D:propstat blocks: one per non-empty bucket, in the order in which
\* the buckets were first filled.
Propstats(evs) ==
    LET first == IF evs = <<>> THEN <<>>
                 ELSE IF evs[1].is404 THEN <<TRUE, FALSE>> ELSE <<FALSE, TRUE>>
        used == SelectSeq(first, LAMBDA f : \E i \in 1..Len(evs) : evs[i].is404 = f)
    IN  [k \in 1..Len(used) |->
            [status |-> MakeResponse(used[k]),
             props |-> SelectSeq(evs, LAMBDA e : e.is404 = used[k])]]

\* xml_propfind_response(base_prefix, path, item, props, user, encoding,
\* write, propname, allprop); "ValueError" when the modes conflict.
PropfindResponse(request_path, v, props, user, write, propname, allprop) ==
    IF ModesConflict(props, propname, allprop) THEN [error |-> "ValueError"]
    ELSE
    LET uri == IF v.is_collection THEN UnstripPath(v.path, TRUE)
               ELSE UnstripPath(v.path \o "/" \o v.href, FALSE)
        names == IF propname \/ allprop THEN CatalogProps(v) ELSE props
        evs == IF propname
               THEN [i \in 1..Len(names) |-> Elem(names[i], None, <<>>, FALSE)]
               ELSE [i \in 1..Len(names) |->
                        EvalProp(names[i], v, user, write, request_path)]
    IN  [error |-> "", href |-> MakeHref(BasePrefix, uri), propstats |-> Propstats(evs)]

----------------------------------------------------------------------------
(* State.                                                                  *)

VARIABLES
    store,      \* existing collections -> [members, etag, mtime]
    lock,       \* the store-wide lock: [readers, writers] (sets of requests)
    hooklog,    \* the notifications handed to the hook, in order, with the sender
    req,        \* per worker: the request it serves and how far it got
    call        \* a direct call of xml_propfind: its arguments and what it returned

vars == <<store, lock, hooklog, req, call>>

Targets == {PPrincipal, PCal, Append(PCal, "a"), PPub, Append(PPub, "x")}

NoHeader == "absent"
IfMatchValues == {NoHeader, "*", ItemEtag("a"), CollEtag(CalItems)}

\* Request bodies: nothing sent, XML that does not parse, a read that times
\* out, or the children of a parsed D:propfind element.
NoBody == [kind |-> "none", elems |-> <<>>]
Malformed == [kind |-> "malformed", elems |-> <<>>]
TimedOut == [kind |-> "timeout", elems |-> <<>>]
Xml(elems) == [kind |-> "xml", elems |-> elems]

AllpropEl == [tag |-> D("allprop"), props |-> <<>>]
PropnameEl == [tag |-> D("propname"), props |-> <<>>]
PropEl(props) == [tag |-> D("prop"), props |-> props]

TripleProps == <<D("getetag"), D("getlastmodified"), D("getcontentlength")>>
PrincipalQuery == <<D("current-user-principal")>>

Bodies ==
    {NoBody, Malformed, TimedOut, Xml(<<>>),
     Xml(<<AllpropEl>>), Xml(<<PropnameEl>>),
     Xml(<<PropEl(TripleProps)>>), Xml(<<PropEl(PrincipalQuery)>>),
     Xml(<<PropnameEl, AllpropEl>>), Xml(<<AllpropEl, PropEl(TripleProps)>>)}

DepthValues == {NoHeader, "1"}

Idle ==
    [pc |-> "idle", method |-> "", path |-> <<>>, user |-> "", if_match |-> NoHeader,
     context |-> NoContext, depth |-> NoHeader, body |-> NoBody,
     item |-> NoResource,
     list |-> <<>>, sent |-> 0, result |-> "", answer |-> <<>>,
     acquired |-> 0, snap |-> InitStore]

\* No direct call was made.
NoCall == [made |-> FALSE]

Init ==
    /\ store = InitStore
    /\ lock = [readers |-> {}, writers |-> {}]
    /\ hooklog = <<>>
    /\ req = [r \in Reqs |-> Idle]
    /\ call = NoCall

----------------------------------------------------------------------------
(* storage.acquire_lock(mode, user) as a context manager.                  *)

\* A DELETE that takes the lock in shared mode.
DeleteLockModeShared == "r"

\* acquire_lock("w", user) of do_DELETE, acquire_lock("r", user) of do_PROPFIND.
DeleteLockMode == "w"
PropfindLockMode == "r"

CanAcquire(mode) ==
    IF mode = "r" THEN lock.writers = {} ELSE lock.writers = {} /\ lock.readers = {}

Locked(mode, r) ==
    IF mode = "r"
    THEN [lock EXCEPT !.readers = @ \cup {r}]
    ELSE [lock EXCEPT !.writers = @ \cup {r}]

Unlocked(r) == [readers |-> lock.readers \ {r}, writers |-> lock.writers \ {r}]

LockModeOf(r) == IF req[r].method = "DELETE" THEN DeleteLockMode ELSE PropfindLockMode

\* A with block that is left without giving the lock back.
ReleaseKeepsLock(r) ==
    /\ req[r].pc = "release"
    /\ req' = [req EXCEPT ![r].pc = "done"]
    /\ UNCHANGED <<store, lock, hooklog, call>>

\* "with self._storage.acquire_lock(mode, user):" is entered.
Acquire(r) ==
    /\ req[r].pc = "lock"
    /\ CanAcquire(LockModeOf(r))
    /\ lock' = Locked(LockModeOf(r), r)
    /\ req' = [req EXCEPT ![r].pc = "locked", ![r].acquired = @ + 1,
                          ![r].snap = store]
    /\ UNCHANGED <<store, hooklog, call>>

\* The with block is left (by a return or by an exception): the lock is
\* released and the caller gets the result.
Release(r) ==
    /\ req[r].pc = "release"
    /\ lock' = Unlocked(r)
    /\ req' = [req EXCEPT ![r].pc = "done"]
    /\ UNCHANGED <<store, hooklog, call>>

----------------------------------------------------------------------------
(* do_DELETE.                                                              *)

\* if_match = environ.get("HTTP_IF_MATCH", "*")
IfMatchOf(header) == IF header = NoHeader THEN "*" ELSE header

\* A precondition test that lets every token pass.
PreconditionAlwaysOk(if_match, etag) == TRUE

\* "if if_match not in ("*", item.etag)" negated.
PreconditionOk(if_match, etag) == if_match \in {"*", etag}

\* A notification list that drops the caller's context of an item delete.
DeleteNotificationsNoContext(st, p, res, context) ==
    IF res.kind = "collection"
    THEN [i \in 1..Len(GetAll(st, res.path)) |->
            HookNotificationItem(HookDelete, p, Uid(GetAll(st, res.path)[i]), NoContext)]
    ELSE <<HookNotificationItem(HookDelete, p, Uid(Href(res.path)), NoContext)>>

\* A notification list built from the last child to the first.
DeleteNotificationsReversed(st, p, res, context) ==
    IF res.kind = "collection"
    THEN [i \in 1..Len(GetAll(st, res.path)) |->
            HookNotificationItem(HookDelete, p,
                Uid(GetAll(st, res.path)[Len(GetAll(st, res.path)) + 1 - i]), NoContext)]
    ELSE <<HookNotificationItem(HookDelete, p, Uid(Href(res.path)), context)>>

\* hook_notification_item_list of do_DELETE.
DeleteNotifications(st, p, res, context) ==
    IF res.kind = "collection"
    THEN [i \in 1..Len(GetAll(st, res.path)) |->
            HookNotificationItem(HookDelete, p, Uid(GetAll(st, res.path)[i]), NoContext)]
    ELSE <<HookNotificationItem(HookDelete, p, Uid(Href(res.path)), context)>>

\* The multistatus xml_delete builds: one response with href and status.
DeleteAnswer(p) ==
    <<[href |-> MakeHref(BasePrefix, RequestPath(p)), status |-> MakeResponse(FALSE)]>>

\* do_DELETE up to the with statement: the access check on the path.
DeleteBegin(r) ==
    /\ req[r].pc = "idle"
    /\ \E p \in Targets, user \in Users, ctx \in Contexts :
         req' = [req EXCEPT ![r] =
                    [Idle EXCEPT !.method = "DELETE", !.path = p, !.user = user,
                                 !.context = ctx,
                                 !.pc = IF AccessCheck(user, p, "w", NoResource)
                                        THEN "lock" ELSE "done",
                                 !.result = IF AccessCheck(user, p, "w", NoResource)
                                            THEN "" ELSE "NOT_ALLOWED"]]
    /\ UNCHANGED <<store, lock, hooklog, call>>

\* Early returns that leave out the access check on the discovered resource.
DeleteVerdictNoRecheck(found, allowed, matched) ==
    IF ~found THEN "NOT_FOUND"
    ELSE IF ~matched THEN "PRECONDITION_FAILED"
    ELSE ""

\* The early returns of do_DELETE inside the lock, in their order; "" when
\* the deletion goes ahead.
DeleteVerdict(found, allowed, matched) ==
    IF ~found THEN "NOT_FOUND"
    ELSE IF ~allowed THEN "NOT_ALLOWED"
    ELSE IF ~matched THEN "PRECONDITION_FAILED"
    ELSE ""

\* do_DELETE inside the lock, up to the notification list.  The If-Match
\* header is read from environ where the code reads it.
DeleteDiscover(r) ==
    /\ req[r].pc = "locked"
    /\ req[r].method = "DELETE"
    /\ \E h \in IfMatchValues :
       LET q == req[r]
           item == FirstDiscovered(store, q.path, "0")
           found == item.kind # "none"
           allowed == found /\ AccessCheck(q.user, q.path, "w", item)
           matched == found /\ PreconditionOk(IfMatchOf(h), EtagOf(store, item))
           verdict == DeleteVerdict(found, allowed, matched)
       IN  req' = [req EXCEPT ![r] =
             IF verdict = "NOT_FOUND"
             THEN [q EXCEPT !.pc = "release", !.result = verdict]
             ELSE IF verdict = "NOT_ALLOWED"
             THEN [q EXCEPT !.pc = "release", !.item = item, !.result = verdict]
             ELSE IF verdict = "PRECONDITION_FAILED"
             THEN [q EXCEPT !.pc = "release", !.item = item, !.if_match = h,
                            !.result = verdict]
             ELSE [q EXCEPT !.pc = "delete", !.item = item, !.if_match = h,
                            !.list = DeleteNotifications(store, q.path, item, q.context)]]
    /\ UNCHANGED <<store, lock, hooklog, call>>

DeleteCollectionOf(res) == IF res.kind = "collection" THEN res.path ELSE ParentPath(res.path)
DeleteHrefOf(res) == IF res.kind = "collection" THEN "" ELSE Href(res.path)

\* xml_delete: collection.delete(href) starts.
DeleteStorage(r) ==
    /\ req[r].pc = "delete"
    /\ store' = StorageDeleteContent(store, DeleteCollectionOf(req[r].item),
                                     DeleteHrefOf(req[r].item))
    /\ req' = [req EXCEPT ![r].pc = "delete2"]
    /\ UNCHANGED <<lock, hooklog, call>>

\* xml_delete: collection.delete(href) completes and the multistatus is built.
DeleteAnswered(r) ==
    /\ req[r].pc = "delete2"
    /\ store' = StorageDeleteFinish(store, DeleteCollectionOf(req[r].item),
                                    DeleteHrefOf(req[r].item))
    /\ req' = [req EXCEPT ![r].pc = "notify", ![r].answer = DeleteAnswer(req[r].path)]
    /\ UNCHANGED <<lock, hooklog, call>>

\* for i in hook_notification_item_list: self._hook.notify(i)
Notify(r) ==
    /\ req[r].pc = "notify"
    /\ req[r].sent < Len(req[r].list)
    /\ hooklog' = Append(hooklog, [by |-> r, item |-> req[r].list[req[r].sent + 1]])
    /\ req' = [req EXCEPT ![r].sent = @ + 1]
    /\ UNCHANGED <<store, lock, call>>

\* return client.OK, headers, self._xml_response(xml_answer)
DeleteReturn(r) ==
    /\ req[r].pc = "notify"
    /\ req[r].sent = Len(req[r].list)
    /\ req' = [req EXCEPT ![r].pc = "release", ![r].result = "OK"]
    /\ UNCHANGED <<store, lock, hooklog, call>>

----------------------------------------------------------------------------
(* do_PROPFIND.                                                            *)

\* environ.get("HTTP_DEPTH", "0")
DepthOf(header) == IF header = NoHeader THEN "0" ELSE header

\* A filter that takes any granted symbol of the class for write access.
LevelAlwaysWrite(granted, untagged) ==
    LET permissions == IF untagged THEN Intersect(granted, {"R", "W"})
                       ELSE Intersect(granted, {"r", "w"})
    IN  IF permissions # {} THEN "w" ELSE ""

\* _collect_allowed_items, from the granted symbols of one resource: "w",
\* "r" or "".  untagged: the resource is a collection without a tag.
Level(granted, untagged) ==
    LET permissions == IF untagged THEN Intersect(granted, {"R", "W"})
                       ELSE Intersect(granted, {"r", "w"})
    IN  IF Intersect(permissions, {"W", "w"}) # {} THEN "w"
        ELSE IF Intersect(permissions, {"R", "r"}) # {} THEN "r"
        ELSE ""

\* _collect_allowed_items, for one discovered resource: "w", "r" or "".
Permission(user, res) ==
    LET coll == IF res.kind = "collection" THEN res.path ELSE ParentPath(res.path)
    IN  Level(Authorization(user, coll), res.kind = "collection" /\ Tag(res.path) = "")

\* A filter that lets every discovered resource through.
CollectAllowedItemsNoFilter(items, user) ==
    [i \in 1..Len(items) |-> [item |-> items[i], permission |-> Permission(user, items[i])]]

\* _collect_allowed_items(items, user)
CollectAllowedItems(items, user) ==
    LET kept == SelectSeq(items, LAMBDA res : Permission(user, res) # "")
    IN  [i \in 1..Len(kept) |-> [item |-> kept[i], permission |-> Permission(user, kept[i])]]

\* xml_propfind: the mode of the first element of the request.
TopElement(body) == IF body.kind = "xml" THEN body.elems[1] ELSE AllpropEl

\* xml_propfind(base_prefix, path, xml_request, allowed_items, user, encoding),
\* the allowed items given as what the property code reads from them.
XmlPropfindOf(request_path, body, allowed, user) ==
    IF body.kind = "xml" /\ body.elems = <<>>
    THEN [status |-> "IndexError", answer |-> <<>>]
    ELSE
    LET top == TopElement(body)
        allprop == top.tag = D("allprop")
        propname == top.tag = D("propname")
        props == IF top.tag = D("prop") THEN top.props ELSE <<>>
        entries == [i \in 1..Len(allowed) |->
                      PropfindResponse(request_path, allowed[i].view,
                                       props, user, allowed[i].permission = "w",
                                       propname, allprop)]
    IN  IF (\E i \in 1..Len(props) : props[i] = D("current-user-principal")) /\ user = ""
        THEN [status |-> "FORBIDDEN", answer |-> <<>>]
        ELSE IF \E i \in 1..Len(entries) : entries[i].error # ""
        THEN [status |-> "ValueError", answer |-> <<>>]
        ELSE [status |-> "MULTI_STATUS", answer |-> entries]

\* xml_propfind over the items of the store st.
XmlPropfind(st, request_path, body, allowed_items, user) ==
    XmlPropfindOf(request_path, body,
                  [i \in 1..Len(allowed_items) |->
                      [view |-> View(st, allowed_items[i].item),
                       permission |-> allowed_items[i].permission]],
                  user)

\* A body read with no handler for socket.timeout.
BodyVerdictNoTimeout(b) == IF b.kind = "malformed" THEN "BAD_REQUEST" ELSE ""

\* The handlers around _read_xml_request_body: RuntimeError and
\* socket.timeout end the request; "" when the body was read.
BodyVerdict(b) ==
    IF b.kind = "malformed" THEN "BAD_REQUEST"
    ELSE IF b.kind = "timeout" THEN "REQUEST_TIMEOUT"
    ELSE ""

\* do_PROPFIND up to the with statement: the access check on the path and
\* the read of the request body.
PropfindBegin(r) ==
    /\ req[r].pc = "idle"
    /\ \E p \in Targets, user \in Users, b \in Bodies :
         req' = [req EXCEPT ![r] =
                    IF ~AccessCheck(user, p, "r", NoResource)
                    THEN [Idle EXCEPT !.method = "PROPFIND", !.path = p, !.user = user,
                                      !.pc = "done", !.result = "NOT_ALLOWED"]
                    ELSE [Idle EXCEPT !.method = "PROPFIND", !.path = p, !.user = user,
                                      !.body = b,
                                      !.pc = IF BodyVerdict(b) = ""
                                             THEN "lock" ELSE "done",
                                      !.result = BodyVerdict(b)]]
    /\ UNCHANGED <<store, lock, hooklog, call>>

\* do_PROPFIND inside the lock: the root item and the access check on it.
\* The Depth header is read from environ where the code reads it.
PropfindDiscover(r) ==
    /\ req[r].pc = "locked"
    /\ req[r].method = "PROPFIND"
    /\ \E d \in DepthValues :
       LET q == req[r]
           item == FirstDiscovered(store, q.path, DepthOf(d))
       IN  req' = [req EXCEPT ![r] =
             IF item.kind = "none"
             THEN [q EXCEPT !.pc = "release", !.result = "NOT_FOUND"]
             ELSE IF ~AccessCheck(q.user, q.path, "r", item)
             THEN [q EXCEPT !.pc = "release", !.item = item, !.result = "NOT_ALLOWED"]
             ELSE [q EXCEPT !.pc = "respond", !.item = item, !.depth = d]]
    /\ UNCHANGED <<store, lock, hooklog, call>>

\* The rest of the discovery, consumed lazily behind the root item.
RestDiscovered(st, p, depth) ==
    IF Discover(st, p, depth) = <<>> THEN <<>> ELSE Tail(Discover(st, p, depth))

\* do_PROPFIND: xml_propfind and the return.
PropfindRespond(r) ==
    /\ req[r].pc = "respond"
    /\ LET q == req[r]
           items == <<q.item>> \o RestDiscovered(store, q.path, DepthOf(q.depth))
           out == XmlPropfind(store, RequestPath(q.path), q.body, CollectAllowedItems(items, q.user), q.user)
       IN  req' = [req EXCEPT ![r] =
             IF out.status = "FORBIDDEN"
             THEN [q EXCEPT !.pc = "release", !.result = "NOT_ALLOWED"]
             ELSE IF out.status = "MULTI_STATUS"
             THEN [q EXCEPT !.pc = "release", !.result = "MULTI_STATUS",
                            !.answer = out.answer]
             ELSE [q EXCEPT !.pc = "release", !.result = "INTERNAL"]]
    /\ UNCHANGED <<store, lock, hooklog, call>>

----------------------------------------------------------------------------
(* Failing collaborators: an exception leaves the with block.              *)

\* collection.delete(href) raises before it changed anything.
DeleteStorageFails(r) ==
    /\ req[r].pc = "delete"
    /\ req' = [req EXCEPT ![r].pc = "release", ![r].result = "INTERNAL"]
    /\ UNCHANGED <<store, lock, hooklog, call>>

\* self._hook.notify(i) raises: the notification and those after it are
\* not handed over.
NotifyFails(r) ==
    /\ req[r].pc = "notify"
    /\ req[r].sent < Len(req[r].list)
    /\ req' = [req EXCEPT ![r].pc = "release", ![r].result = "INTERNAL"]
    /\ UNCHANGED <<store, lock, hooklog, call>>

----------------------------------------------------------------------------

Next ==
    \E r \in Reqs :
        \/ DeleteBegin(r)
        \/ PropfindBegin(r)
        \/ PropfindDiscover(r)
        \/ PropfindRespond(r)
        \/ Acquire(r)
        \/ DeleteDiscover(r)
        \/ DeleteStorage(r)
        \/ DeleteAnswered(r)
        \/ Notify(r)
        \/ DeleteReturn(r)
        \/ Release(r)

Spec == Init /\ [][Next]_vars

\* The same program with a storage and a hook that may raise.
NextFault ==
    \/ Next
    \/ \E r \in Reqs : DeleteStorageFails(r) \/ NotifyFails(r)

SpecFault == Init /\ [][NextFault]_vars

----------------------------------------------------------------------------
(* xml_propfind called on one discovered resource, the resource, the       *)
(* rights granted on it, the caller and the request body drawn from        *)
(* bounded sets: the permission filter, then the response.                 *)

\* Longest explicit property list built from PairPool.
MaxProps == 2

TagChoices == {"", "VADDRESSBOOK", "VCALENDAR"}

\* Metadata a collection may hold besides its tag (set by MKCOL, PROPPATCH).
MetaChoices ==
    {<<>>,
     << <<DisplayNameKey, "Work">> >>,
     << <<DisplayNameKey, "">> >>,
     << <<<<"ICAL", "calendar-color">>, "#ff0000">> >>,
     << <<<<"C", "supported-calendar-component-set">>, "VEVENT">> >>,
     << <<<<"CS", "getctag">>, "stored">> >>}

CollectionView(tag, principal, owner, extra) ==
    [is_collection |-> TRUE, is_principal |-> principal, owner |-> owner,
     meta |-> (IF tag # "" THEN << <<TagKey, tag>> >> ELSE <<>>) \o extra,
     path |-> IF principal THEN "u" ELSE "u/cal", href |-> "",
     etag |-> CollEtag(CalItems), last_modified |-> "t0",
     body |-> CollBody(CalItems),
     content_type |-> "text/calendar;charset=utf-8;component=VEVENT",
     sync_token |-> "http://radicale.org/ns/sync/" \o CollEtag(CalItems)]

\* An item and what the property code reads from its collection.
ItemView(principal, owner) ==
    [is_collection |-> FALSE, is_principal |-> principal, owner |-> owner,
     meta |-> <<>>, path |-> IF principal THEN "u" ELSE "u/cal", href |-> "a",
     etag |-> ItemEtag("a"), last_modified |-> ItemLastModified("a"),
     body |-> ItemBody("a"),
     content_type |-> "text/calendar;charset=utf-8;component=VEVENT",
     sync_token |-> None]

Views ==
    {CollectionView(t, p, o, e) :
        t \in TagChoices, p \in BOOLEAN, o \in {"", "u"}, e \in MetaChoices}
    \cup {ItemView(p, o) : p \in BOOLEAN, o \in {"", "u"}}

\* What rights.authorization may grant on the resource's collection.
GrantedChoices ==
    {{}, {"r"}, {"w"}, {"R"}, {"W"}, {"R", "w"}, {"r", "W"}, {"r", "w", "R", "W"}}

\* Names a client may list: every name the property code knows, a stored
\* metadata key, and a name nothing answers.
NamePool ==
    {D("getetag"), D("getlastmodified"), D("getcontenttype"), D("getcontentlength"),
     D("principal-collection-set"), D("current-user-principal"),
     D("current-user-privilege-set"), D("supported-report-set"),
     D("resourcetype"), D("owner"), D("displayname"), D("sync-token"),
     D("principal-URL"), C("calendar-user-address-set"), C("calendar-home-set"),
     CR("addressbook-home-set"), C("supported-calendar-component-set"),
     CS("getctag"), RADICALE("displayname"),
     MakeClark(<<"ICAL", "calendar-color">>), MakeClark(<<"ICAL", "calendar-order">>)}

PairPool ==
    {D("getetag"), D("resourcetype"), D("owner"), C("calendar-home-set"),
     CS("getctag"), MakeClark(<<"ICAL", "calendar-color">>)}

PropLists ==
    {<<t>> : t \in NamePool} \cup UNION {[1..k -> PairPool] : k \in 1..MaxProps}

CallBodies ==
    {NoBody, Xml(<<>>), Xml(<<AllpropEl>>), Xml(<<PropnameEl>>)}
    \cup {Xml(<<PropEl(l)>>) : l \in PropLists}

\* "if item.get_meta("tag")" of _collect_allowed_items, negated.
Untagged(v) == v.is_collection /\ GetMeta(v, TagKey) \in {None, ""}

\* One round of _collect_allowed_items and the xml_propfind that consumes it.
CallXmlPropfind ==
    /\ ~call.made
    /\ \E v \in Views, granted \in GrantedChoices, user \in Users, b \in CallBodies :
         LET permission == Level(granted, Untagged(v))
             allowed == IF permission = "" THEN <<>>
                        ELSE <<[view |-> v, permission |-> permission]>>
             out == XmlPropfindOf(RequestPath(PPrincipal), b, allowed, user)
         IN  call' = [made |-> TRUE, view |-> v, granted |-> granted, user |-> user,
                      body |-> b, permission |-> permission,
                      status |-> out.status, answer |-> out.answer]
    /\ UNCHANGED <<store, lock, hooklog, req>>

NextCall == CallXmlPropfind

SpecCall == Init /\ [][NextCall]_vars

----------------------------------------------------------------------------
(* Properties.                                                             *)

Ended(r) == req[r].pc \in {"release", "done"}

\* The notifications request r handed to the hook, in order.
HandedBy(r) ==
    LET mine == SelectSeq(hooklog, LAMBDA e : e.by = r)
    IN  [i \in 1..Len(mine) |-> mine[i].item]

\* The deletion reached the If-Match test: the resource was found and the
\* caller may write it.
ReachedPrecondition(r) ==
    /\ req[r].method = "DELETE"
    /\ req[r].item # NoResource
    /\ AccessCheck(req[r].user, req[r].path, "w", req[r].item)

\* C1: a DELETE whose If-Match token is neither "*" nor the current etag of
\* the addressed resource ends precondition-failed, deletes nothing, hands
\* nothing to the hook, and leaves the resource discoverable.
C1_PreconditionFailed ==
    \A r \in Reqs :
        (/\ ReachedPrecondition(r)
         /\ IfMatchOf(req[r].if_match) \notin {"*", EtagOf(req[r].snap, req[r].item)})
        => /\ Ended(r)
           /\ req[r].result = "PRECONDITION_FAILED"
           /\ req[r].list = <<>> /\ req[r].sent = 0 /\ req[r].answer = <<>>
           /\ HandedBy(r) = <<>>
           /\ (req[r].pc = "release"
               => /\ store = req[r].snap
                  /\ FirstDiscovered(store, req[r].path, "0") = req[r].item)

C1_Witness ==
    \E r \in Reqs :
        /\ req[r].method = "DELETE" /\ req[r].pc = "done"
        /\ req[r].result = "PRECONDITION_FAILED"
        /\ req[r].path = PCal /\ req[r].if_match = ItemEtag("a")
        /\ FirstDiscovered(store, PCal, "0") = CollectionAt(PCal)

\* C2: a successful DELETE of a collection holding N items hands exactly N
\* delete notifications to the hook, one per contained item with that item's
\* uid and no context, and answers with one 200 entry for the addressed
\* path; a successful DELETE of an item hands exactly one delete
\* notification with the item's uid and the caller's context.
C2_DeleteNotifications ==
    \A r \in Reqs :
        (req[r].method = "DELETE" /\ req[r].result = "OK")
        => LET q == req[r]
               handed == HandedBy(r)
           IN  /\ q.answer = <<[href |-> RequestPath(q.path), status |-> "HTTP/1.1 200 OK"]>>
               /\ \A i \in 1..Len(handed) : handed[i].type = "delete"
               /\ IF q.item.kind = "collection"
                  THEN /\ Len(handed) = Cardinality(q.snap[q.item.path].members)
                       /\ {handed[i].content : i \in 1..Len(handed)}
                            = {Uid(h) : h \in q.snap[q.item.path].members}
                       /\ \A i \in 1..Len(handed) : handed[i].context = NoContext
                  ELSE /\ Len(handed) = 1
                       /\ handed[1].content = Uid(Href(q.item.path))
                       /\ handed[1].context = q.context

C2_Witness ==
    \E r1, r2 \in Reqs :
        /\ req[r1].method = "DELETE" /\ req[r1].result = "OK" /\ req[r1].pc = "done"
        /\ req[r1].item.kind = "item" /\ req[r1].context = "ctx"
        /\ req[r2].method = "DELETE" /\ req[r2].result = "OK" /\ req[r2].pc = "done"
        /\ req[r2].item = CollectionAt(PCal) /\ Len(HandedBy(r2)) = NumItems - 1

----------------------------------------------------------------------------

Holders == lock.readers \cup lock.writers

InWith(r) ==
    req[r].pc \in {"locked", "respond", "delete", "delete2", "notify", "release"}

\* A store no deletion is halfway through: every etag and modification time
\* belongs to the member set stored with it.
ConsistentStore(st) ==
    \A c \in DOMAIN st :
        /\ st[c].etag = CollEtag(st[c].members)
        /\ st[c].mtime = Cardinality(InitMembers(c)) - Cardinality(st[c].members)

\* The multistatus a PROPFIND builds when it reads everything from store st.
AnswerFrom(st, r) ==
    XmlPropfind(st, RequestPath(req[r].path), req[r].body,
                CollectAllowedItems(Discover(st, req[r].path, DepthOf(req[r].depth)),
                                    req[r].user),
                req[r].user).answer

\* (etag, last-modified, content-length) of a leaf collection with members m.
TripleOfMembers(c, m) ==
    <<CollEtag(m), "t" \o ToString(Cardinality(InitMembers(c)) - Cardinality(m)),
      ToString(Len(CollBody(m)))>>

\* The texts of the properties of a response entry, in order.
TextsOf(entry) ==
    IF entry.propstats = <<>> THEN <<>>
    ELSE [i \in 1..Len(entry.propstats[1].props) |-> entry.propstats[1].props[i].text]

\* C3: PROPFIND holds the lock in read mode and DELETE in write mode, no
\* PROPFIND is inside its locked region while a DELETE is inside its own,
\* and every response is computed from one store state that no deletion is
\* halfway through: the (etag, last-modified, content-length) triple reported
\* for a leaf collection belongs to one member set.
C3_SnapshotIsolation ==
    \A r \in Reqs :
        /\ (req[r].method = "PROPFIND" /\ InWith(r))
            => /\ r \in lock.readers /\ lock.writers = {}
               /\ \A d \in Reqs : ~(req[d].method = "DELETE" /\ InWith(d))
        /\ (req[r].method = "DELETE" /\ InWith(r))
            => lock.writers = {r} /\ lock.readers = {}
        /\ (req[r].method = "PROPFIND" /\ req[r].result = "MULTI_STATUS")
            => /\ ConsistentStore(req[r].snap)
               /\ req[r].answer = AnswerFrom(req[r].snap, r)
               /\ req[r].body = Xml(<<PropEl(TripleProps)>>)
                   => \A i \in 1..Len(req[r].answer) : \A c \in {PCal, PPub} :
                        req[r].answer[i].href = UnstripPath(Join(c), TRUE)
                        => \E m \in SUBSET InitMembers(c) :
                             TextsOf(req[r].answer[i]) = TripleOfMembers(c, m)

\* A PROPFIND that waited for a DELETE of item a reports the calendar's
\* triple of the state after the deletion.
C3_Witness ==
    \E r, d \in Reqs :
        /\ req[d].method = "DELETE" /\ req[d].pc = "done" /\ req[d].result = "OK"
        /\ req[d].path = Append(PCal, "a")
        /\ req[r].method = "PROPFIND" /\ req[r].pc = "release"
        /\ req[r].result = "MULTI_STATUS"
        /\ req[r].body = Xml(<<PropEl(TripleProps)>>)
        /\ req[r].path = PCal /\ req[r].depth = "1"
        /\ Len(req[r].answer) = NumItems
        /\ TextsOf(req[r].answer[1]) = TripleOfMembers(PCal, CalItems \ {"a"})

----------------------------------------------------------------------------

ModeTags == {D("allprop"), D("propname"), D("prop")}

\* The body names more than one of the request modes.
Conflicting(b) ==
    /\ b.kind = "xml"
    /\ \E i, j \in 1..Len(b.elems) :
         /\ b.elems[i].tag \in ModeTags /\ b.elems[j].tag \in ModeTags
         /\ b.elems[i].tag # b.elems[j].tag

\* C4: a PROPFIND that asks for more than one mode at once ends BadRequest.
C4_ConflictIsBadRequest ==
    \A r \in Reqs :
        (req[r].method = "PROPFIND" /\ Conflicting(req[r].body) /\ req[r].pc = "done")
        => req[r].result = "BAD_REQUEST"

\* C5: a DELETE that fails after the write lock is acquired leaves either
\* the deletion applied with every notification handed to the hook, or no
\* deletion applied and no notification handed over.
C5_FailureIsAtomic ==
    \A r \in Reqs :
        (req[r].method = "DELETE" /\ req[r].pc = "release" /\ req[r].result = "INTERNAL")
        => \/ store = req[r].snap /\ HandedBy(r) = <<>>
           \/ store # req[r].snap /\ Len(HandedBy(r)) = Len(req[r].list)

\* C6: the outcome of a DELETE is decided by four tests in this order: write
\* access on the path (not-allowed), discovery (not-found), write access on
\* the resource (not-allowed), the If-Match token (precondition-failed); it
\* is 200 exactly when all four pass, the store is touched only then, and
\* every other outcome leaves the store unchanged and the hook unnotified.
C6_DeleteDecision ==
    \A r \in Reqs :
        req[r].method = "DELETE" =>
        LET q == req[r]
            pathOk == AccessCheck(q.user, q.path, "w", NoResource)
            item == FirstDiscovered(q.snap, q.path, "0")
            found == item.kind # "none"
            itemOk == AccessCheck(q.user, q.path, "w", item)
            tokenOk == IfMatchOf(q.if_match) \in {"*", EtagOf(q.snap, item)}
            expected ==
                IF ~pathOk THEN "NOT_ALLOWED"
                ELSE IF ~found THEN "NOT_FOUND"
                ELSE IF ~itemOk THEN "NOT_ALLOWED"
                ELSE IF ~tokenOk THEN "PRECONDITION_FAILED"
                ELSE "OK"
        IN  /\ Ended(r) => q.result = expected
            /\ ~pathOk => q.acquired = 0
            /\ (Ended(r) /\ q.result # "OK")
                => /\ HandedBy(r) = <<>>
                   /\ q.pc = "release" => store = q.snap
            /\ (q.pc \in {"delete", "delete2", "notify"} \/ (InWith(r) /\ store # q.snap))
                => expected = "OK"

C6_Witness ==
    \E r, d \in Reqs :
        /\ req[r].method = "DELETE" /\ req[r].pc = "done"
        /\ req[r].result = "NOT_ALLOWED" /\ req[r].acquired = 1
        /\ req[d].method = "DELETE" /\ req[d].pc = "done"
        /\ req[d].result = "PRECONDITION_FAILED" /\ req[d].path = Append(PCal, "a")

\* C7: a request acquires the store lock at most once, before any discovery
\* or mutation, holds it exactly while it is inside the with block, and
\* gives it back only when its result is complete: the response is built
\* from the whole filtered discovery and, for DELETE, every notification of
\* the list has been handed over.  No request ends holding the lock.
C7_LockDiscipline ==
    \A r \in Reqs :
        LET q == req[r]
        IN  /\ q.acquired <= 1
            /\ r \in Holders <=> InWith(r)
            /\ q.pc = "done" => r \notin Holders
            /\ q.acquired = 0
                => /\ q.item = NoResource /\ q.list = <<>> /\ q.answer = <<>>
                   /\ HandedBy(r) = <<>>
                   /\ q.result \in {"", "NOT_ALLOWED", "BAD_REQUEST", "REQUEST_TIMEOUT"}
            /\ (q.pc \in {"release", "done"} /\ q.acquired = 1)
                => /\ q.result \in {"OK", "MULTI_STATUS", "NOT_FOUND", "NOT_ALLOWED",
                                    "PRECONDITION_FAILED", "INTERNAL"}
                   /\ q.result = "OK"
                       => /\ q.answer # <<>>
                          /\ HandedBy(r) = q.list
                   /\ q.result = "MULTI_STATUS"
                       => Len(q.answer) =
                            Len(CollectAllowedItems(
                                  Discover(q.snap, q.path, DepthOf(q.depth)), q.user))

C7_Witness ==
    \E r, d \in Reqs :
        /\ req[r].method = "DELETE" /\ req[r].pc = "done" /\ req[r].acquired = 1
        /\ req[r].result = "OK" /\ Len(req[r].list) = NumItems
        /\ req[d].method = "PROPFIND" /\ req[d].pc = "done" /\ req[d].acquired = 1
        /\ req[d].result = "NOT_FOUND"
        /\ Holders = {}

\* C8: a PROPFIND whose body is malformed or whose body read times out ends
\* with BadRequest or Timeout having never acquired the lock and never
\* discovered anything; no request with one of these results holds the lock.
C8_BodyErrorsBeforeLock ==
    \A r \in Reqs :
        /\ req[r].body.kind = "malformed" => req[r].result = "BAD_REQUEST"
        /\ req[r].body.kind = "timeout" => req[r].result = "REQUEST_TIMEOUT"
        /\ req[r].result \in {"BAD_REQUEST", "REQUEST_TIMEOUT"}
            => /\ req[r].pc = "done"
               /\ req[r].acquired = 0
               /\ r \notin Holders
               /\ req[r].item = NoResource /\ req[r].answer = <<>>

C8_Witness ==
    \E r, d \in Reqs :
        /\ req[r].method = "PROPFIND" /\ req[r].result = "BAD_REQUEST"
        /\ req[d].method = "PROPFIND" /\ req[d].result = "REQUEST_TIMEOUT"
        /\ req[r].pc = "done" /\ req[d].pc = "done"

----------------------------------------------------------------------------

\* The explicit property list of a request body.
ExplicitProps(b) ==
    IF b.kind = "xml" /\ b.elems # <<>> /\ b.elems[1].tag = D("prop")
    THEN b.elems[1].props ELSE <<>>

AsksPrincipal(b) ==
    \E i \in 1..Len(ExplicitProps(b)) : ExplicitProps(b)[i] = D("current-user-principal")

\* C9: a PROPFIND ends not-allowed when read access to the path is denied
\* (before any discovery), 404 when nothing is discovered, not-allowed with
\* no multistatus when an unauthenticated caller lists current-user-principal,
\* and 207 with a multistatus whenever else the body parsed and the
\* resource may be read.
C9_PropfindOutcome ==
    \A r \in Reqs :
        (req[r].method = "PROPFIND" /\ Ended(r)) =>
        LET q == req[r]
            pathOk == AccessCheck(q.user, q.path, "r", NoResource)
            parsed == q.body.kind \in {"none", "xml"}
            item == FirstDiscovered(q.snap, q.path, "0")
            found == item.kind # "none"
            itemOk == AccessCheck(q.user, q.path, "r", item)
            refused == q.user = "" /\ AsksPrincipal(q.body)
        IN  /\ ~pathOk => (q.result = "NOT_ALLOWED" /\ q.acquired = 0)
            /\ (pathOk /\ parsed /\ ~found) => q.result = "NOT_FOUND"
            /\ (pathOk /\ parsed /\ found /\ itemOk /\ refused)
                => (q.result = "NOT_ALLOWED" /\ q.answer = <<>>)
            /\ (pathOk /\ parsed /\ found /\ itemOk /\ ~refused)
                => (q.result = "MULTI_STATUS" /\ Len(q.answer) >= 1)

\* current-user-principal is asked for: by name, or by all-properties.
PrincipalRequested(b) ==
    \/ b.kind = "none"
    \/ b.kind = "xml" /\ b.elems # <<>> /\ b.elems[1].tag = D("allprop")
    \/ AsksPrincipal(b)

\* The request got as far as xml_propfind.
ReachedXmlPropfind(r) ==
    /\ req[r].method = "PROPFIND" /\ Ended(r)
    /\ req[r].item # NoResource
    /\ AccessCheck(req[r].user, req[r].path, "r", req[r].item)

\* The entry reports current-user-principal as success with the caller's
\* principal (or the unauthenticated marker), and nowhere as not-found.
PrincipalReported(entry, user) ==
    LET want == [tag |-> D("current-user-principal"), text |-> None,
                 children |-> IF user # ""
                              THEN << <<"D:href", "/" \o user \o "/">> >>
                              ELSE << <<"D:unauthenticated">> >>,
                 is404 |-> FALSE]
    IN  /\ \E k \in 1..Len(entry.propstats) :
             /\ entry.propstats[k].status = "HTTP/1.1 200 OK"
             /\ \E i \in 1..Len(entry.propstats[k].props) :
                  entry.propstats[k].props[i] = want
        /\ \A k \in 1..Len(entry.propstats) :
             entry.propstats[k].status # "HTTP/1.1 200 OK"
             => \A i \in 1..Len(entry.propstats[k].props) :
                  entry.propstats[k].props[i].tag # D("current-user-principal")

\* C10 as claimed: whenever current-user-principal is requested, by name or
\* by all-properties, every resource reports it as success and the request
\* never ends in an error.
C10_PrincipalNeverFails ==
    \A r \in Reqs :
        (ReachedXmlPropfind(r) /\ PrincipalRequested(req[r].body))
        => /\ req[r].result = "MULTI_STATUS"
           /\ \A i \in 1..Len(req[r].answer) :
                PrincipalReported(req[r].answer[i], req[r].user)

\* C10 amended: every resource of a 207 response reports a requested
\* current-user-principal as success (the caller's principal, or the
\* unauthenticated marker under all-properties) and never as not-found; an
\* unauthenticated caller who lists it by name gets not-allowed for the
\* whole request and no multistatus.
C10_PrincipalReported ==
    \A r \in Reqs :
        (ReachedXmlPropfind(r) /\ PrincipalRequested(req[r].body))
        => IF req[r].user = "" /\ AsksPrincipal(req[r].body)
           THEN req[r].result = "NOT_ALLOWED" /\ req[r].answer = <<>>
           ELSE /\ req[r].result = "MULTI_STATUS"
                /\ \A i \in 1..Len(req[r].answer) :
                     PrincipalReported(req[r].answer[i], req[r].user)

C10_Witness ==
    \E r, d \in Reqs :
        /\ ReachedXmlPropfind(r) /\ req[r].user = "" /\ req[r].body = NoBody
        /\ req[r].result = "MULTI_STATUS" /\ req[r].depth = "1"
        /\ Len(req[r].answer) = 2
        /\ PrincipalReported(req[r].answer[2], "")
        /\ ReachedXmlPropfind(d) /\ req[d].user = "u"
        /\ req[d].body = Xml(<<PropEl(PrincipalQuery)>>)
        /\ req[d].result = "MULTI_STATUS"
        /\ PrincipalReported(req[d].answer[1], "u")

----------------------------------------------------------------------------
(* Properties of one response entry.                                       *)

Ok200 == MakeResponse(FALSE)
NotFound404 == MakeResponse(TRUE)

\* The explicit list of the direct call, <<>> in the other modes.
CallProps == ExplicitProps(call.body)

\* The call returned a multistatus with the entry of its resource.
CallAnswered == call.made /\ call.status = "MULTI_STATUS" /\ Len(call.answer) = 1

\* The status lines of the blocks of entry that hold property tag.
StatusesOf(entry, tag) ==
    {entry.propstats[k].status : k \in
        {j \in 1..Len(entry.propstats) :
            \E i \in 1..Len(entry.propstats[j].props) :
                entry.propstats[j].props[i].tag = tag}}

LeafTagged(v) == v.is_collection /\ GetMeta(v, TagKey) \in {"VADDRESSBOOK", "VCALENDAR"}

\* C11: getetag, getlastmodified, getcontentlength and getcontenttype, when
\* listed explicitly, are reported as success exactly for items and leaf
\* collections, and as not-found for every other collection.
C11_ContentProperties ==
    CallAnswered =>
    \A i \in 1..Len(CallProps) :
        CallProps[i] \in {D("getetag"), D("getlastmodified"),
                          D("getcontentlength"), D("getcontenttype")}
        => StatusesOf(call.answer[1], CallProps[i]) =
             IF ~call.view.is_collection \/ LeafTagged(call.view)
             THEN {Ok200} ELSE {NotFound404}

\* A plain collection asked for its content length answers not-found.
C11_Witness ==
    /\ CallAnswered
    /\ call.view.is_collection /\ ~LeafTagged(call.view)
    /\ CallProps = <<D("getcontentlength")>>
    /\ StatusesOf(call.answer[1], D("getcontentlength")) = {NotFound404}

\* The elements of entry that carry property tag, block by block.
ElementsOf(entry, tag) ==
    {e \in UNION {{entry.propstats[k].props[i] :
                      i \in 1..Len(entry.propstats[k].props)} :
                  k \in 1..Len(entry.propstats)} : e.tag = tag}

CallAllprop == call.body = NoBody \/ call.body = Xml(<<AllpropEl>>)

\* C12: under all-properties every resource reports resourcetype and
\* current-user-privilege-set as success; in every mode resourcetype (empty
\* for an item) and owner (an empty element when there is no owner) are
\* never reported as not-found.
C12_AlwaysPresent ==
    CallAnswered =>
    LET entry == call.answer[1]
    IN  /\ CallAllprop
            => /\ StatusesOf(entry, D("resourcetype")) = {Ok200}
               /\ StatusesOf(entry, D("current-user-privilege-set")) = {Ok200}
        /\ NotFound404 \notin StatusesOf(entry, D("resourcetype"))
        /\ NotFound404 \notin StatusesOf(entry, D("owner"))
        /\ \A e \in ElementsOf(entry, D("owner")) :
              call.body # Xml(<<PropnameEl>>)
              => (e.children = <<>> <=> call.view.owner = "")
        /\ \A e \in ElementsOf(entry, D("resourcetype")) :
              ~call.view.is_collection => (e.children = <<>> /\ e.text = None)

\* An item of a collection without owner, asked for both by name.
C12_Witness ==
    /\ CallAnswered
    /\ ~call.view.is_collection /\ call.view.owner = ""
    /\ CallProps = <<D("owner"), D("resourcetype")>>
    /\ Len(call.answer[1].propstats) = 1
    /\ call.answer[1].propstats[1].status = Ok200
    /\ Len(call.answer[1].propstats[1].props) = 2

\* The granted symbols that count for the class of the called resource.
Residual ==
    call.granted \cap
        (IF call.view.is_collection /\ GetMeta(call.view, TagKey) \in {None, ""}
         THEN {"R", "W"} ELSE {"r", "w"})

\* The privileges an element of current-user-privilege-set names.
PrivilegesIn(e) == {e.children[i][2] : i \in 1..Len(e.children)}

\* C13: the granted symbols are cut down to the mask of the resource's class
\* ({r,w} for items and tagged collections, {R,W} for untagged ones); the
\* resource is listed iff something remains, its level is write iff a write
\* symbol remains, and current-user-privilege-set names read always and
\* all, write, write-properties, write-content iff the level is write.
C13_EffectivePermission ==
    (call.made /\ call.status = "MULTI_STATUS") =>
    /\ Len(call.answer) = (IF Residual # {} THEN 1 ELSE 0)
    /\ Residual = {} <=> call.permission = ""
    /\ Residual # {}
        => /\ call.permission = (IF Residual \cap {"w", "W"} # {} THEN "w" ELSE "r")
           /\ (CallAllprop \/ CallProps = <<D("current-user-privilege-set")>>)
               => ElementsOf(call.answer[1], D("current-user-privilege-set")) # {}
           /\ call.body # Xml(<<PropnameEl>>)
               => \A e \in ElementsOf(call.answer[1], D("current-user-privilege-set")) :
                    /\ ~e.is404
                    /\ PrivilegesIn(e) =
                         {"D:read"} \cup
                         (IF Residual \cap {"w", "W"} # {}
                          THEN {"D:all", "D:write", "D:write-properties",
                                "D:write-content"}
                          ELSE {})

\* A collection without tag on which R and w are granted: w does not count,
\* the resource is listed with read access only.
C13_Witness ==
    /\ CallAnswered /\ CallAllprop
    /\ call.view.is_collection /\ ~LeafTagged(call.view)
    /\ call.granted = {"R", "w"}
    /\ call.permission = "r"
    /\ \E e \in ElementsOf(call.answer[1], D("current-user-privilege-set")) :
          PrivilegesIn(e) = {"D:read"}

\* The names the call evaluates, in evaluation order: the explicit list, or
\* the catalog of the resource.
CallNames == IF CallProps # <<>> THEN CallProps ELSE CatalogProps(call.view)

TagsOf(block) == [i \in 1..Len(block.props) |-> block.props[i].tag]

\* C17: every evaluated property is in exactly one of the buckets 200 and
\* 404 (k listed names give k entries, duplicates included); the entry has
\* one block per non-empty bucket and none for an empty one; inside a block
\* the properties keep their evaluation order.
C17_Buckets ==
    CallAnswered =>
    LET entry == call.answer[1]
        blocks == entry.propstats
        total == IF Len(blocks) = 0 THEN 0
                 ELSE IF Len(blocks) = 1 THEN Len(blocks[1].props)
                 ELSE Len(blocks[1].props) + Len(blocks[2].props)
    IN  /\ Len(blocks) <= 2
        /\ \A k \in 1..Len(blocks) :
              /\ blocks[k].status \in {Ok200, NotFound404}
              /\ blocks[k].props # <<>>
              /\ \A i \in 1..Len(blocks[k].props) :
                    blocks[k].props[i].is404 <=> blocks[k].status = NotFound404
              /\ TagsOf(blocks[k]) =
                    SelectSeq(CallNames,
                              LAMBDA t : blocks[k].status \in StatusesOf(entry, t))
        /\ Len(blocks) = 2 => blocks[1].status # blocks[2].status
        /\ total = Len(CallNames)
        /\ \A i \in 1..Len(CallNames) :
              Cardinality(StatusesOf(entry, CallNames[i])) = 1

\* A plain collection asked for getetag and owner: a not-found block with
\* the first, then a success block with the second.
C17_Witness ==
    /\ CallAnswered
    /\ call.view.is_collection /\ ~LeafTagged(call.view)
    /\ CallProps = <<D("getetag"), D("owner")>>
    /\ Len(call.answer[1].propstats) = 2
    /\ call.answer[1].propstats[1].status = NotFound404
    /\ TagsOf(call.answer[1].propstats[1]) = <<D("getetag")>>
    /\ TagsOf(call.answer[1].propstats[2]) = <<D("owner")>>

\* The caller holds a symbol that counts for the class of the resource.
MayList(user, res) ==
    LET coll == IF res.kind = "collection" THEN res.path ELSE ParentPath(res.path)
        mask == IF res.kind = "collection" /\ Tag(res.path) = ""
                THEN {"R", "W"} ELSE {"r", "w"}
    IN  Authorization(user, coll) \cap mask # {}

\* The href a response entry carries for the resource.
EntryHref(res) ==
    IF res.kind = "collection" THEN "/" \o Join(res.path) \o "/"
    ELSE "/" \o Join(res.path)

\* C18: a 207 response holds exactly one entry per discovered resource that
\* passes the permission filter, none for the others, none twice, in the
\* order of discovery with the addressed resource first.
C18_EntriesFollowDiscovery ==
    \A r \in Reqs :
        (req[r].method = "PROPFIND" /\ req[r].result = "MULTI_STATUS") =>
        LET q == req[r]
            found == Discover(q.snap, q.path, DepthOf(q.depth))
            listed == SelectSeq(found, LAMBDA res : MayList(q.user, res))
        IN  /\ Len(q.answer) = Len(listed)
            /\ \A i \in 1..Len(listed) : q.answer[i].href = EntryHref(listed[i])
            /\ \A i, j \in 1..Len(q.answer) :
                  i # j => q.answer[i].href # q.answer[j].href
            /\ q.answer[1].href = EntryHref(found[1])

\* The calendar listed with its items in enumeration order, and a listing
\* of the principal by an anonymous caller that leaves the calendar out.
C18_Witness ==
    \E r, d \in Reqs :
        /\ req[r].method = "PROPFIND" /\ req[r].result = "MULTI_STATUS"
        /\ req[r].user = "u" /\ req[r].path = PCal /\ req[r].depth = "1"
        /\ Len(req[r].answer) = NumItems + 1
        /\ req[r].answer[1].href = "/u/cal/" /\ req[r].answer[2].href = "/u/cal/a"
        /\ req[d].method = "PROPFIND" /\ req[d].result = "MULTI_STATUS"
        /\ req[d].user = "" /\ req[d].path = PPrincipal /\ req[d].depth = "1"
        /\ Len(Discover(req[d].snap, PPrincipal, "1")) = 2
        /\ Len(req[d].answer) = 1

\* The property names an entry reports, whatever their bucket.
NamesOf(entry) ==
    UNION {{entry.propstats[k].props[i].tag : i \in 1..Len(entry.propstats[k].props)} :
           k \in 1..Len(entry.propstats)}

\* The entry xml_propfind gives for the called resource under body b.
EntryUnder(b) ==
    XmlPropfindOf(RequestPath(PPrincipal), b,
                  <<[view |-> call.view, permission |-> call.permission]>>,
                  call.user).answer[1]

\* The names of propname and of allprop agree for the called resource.
NamesAgree ==
    (CallAnswered /\ call.body = Xml(<<PropnameEl>>))
    => NamesOf(call.answer[1]) = NamesOf(EntryUnder(Xml(<<AllpropEl>>)))

\* propname reports every name as success and computes no value.
NamesOnlyBare ==
    (CallAnswered /\ call.body = Xml(<<PropnameEl>>))
    => /\ StatusesOf(call.answer[1], D("resourcetype")) = {Ok200}
       /\ \A k \in 1..Len(call.answer[1].propstats) :
             /\ call.answer[1].propstats[k].status = Ok200
             /\ \A i \in 1..Len(call.answer[1].propstats[k].props) :
                   /\ call.answer[1].propstats[k].props[i].text = None
                   /\ call.answer[1].propstats[k].props[i].children = <<>>

\* allprop reports every name of the catalog as success.
AllpropAllFound ==
    (CallAnswered /\ CallAllprop)
    => \A k \in 1..Len(call.answer[1].propstats) :
          call.answer[1].propstats[k].status = Ok200

\* C19: for every resource propname returns the names allprop reports,
\* allprop reports each of them as success (no not-found block) whatever
\* metadata keys the collection stores, and propname reports every name as
\* success without computing a value.
C19_CatalogAgreement == NamesAgree /\ NamesOnlyBare /\ AllpropAllFound

\* Names no branch of the property code answers by itself.
NoRuleNames ==
    {MakeClark(<<"ICAL", "calendar-color">>), MakeClark(<<"ICAL", "calendar-order">>)}

\* The resource stores no metadata under the name.
LacksKey(v, tag) ==
    ~v.is_collection \/ \A i \in 1..Len(v.meta) : v.meta[i][1] # MakeHumanTag(tag)

\* The name has no rule, or its rule does not apply to the resource.
Inapplicable(tag, v) ==
    \/ tag \in NoRuleNames /\ LacksKey(v, tag)
    \/ tag \in PrincipalProps /\ ~(v.is_collection /\ v.is_principal) /\ LacksKey(v, tag)
    \/ tag = RADICALE("displayname") /\ LacksKey(v, D("displayname"))
    \/ tag = D("displayname") /\ LacksKey(v, tag) /\ ~LeafTagged(v)

\* The caller is unauthenticated and lists current-user-principal.
CallRefused ==
    call.user = "" /\ \E i \in 1..Len(CallProps) : CallProps[i] = D("current-user-principal")

\* C20: in an explicit list a name without a rule, or whose rule does not
\* apply to the resource, gives a not-found entry for that name; the request
\* still ends 207 and every other name is resolved as it is on its own.
C20_InapplicableIsNotFound ==
    (call.made /\ CallProps # <<>> /\ ~CallRefused)
    => /\ call.status = "MULTI_STATUS"
       /\ call.permission # ""
           => \A i \in 1..Len(CallProps) :
                /\ Inapplicable(CallProps[i], call.view)
                    => StatusesOf(call.answer[1], CallProps[i]) = {NotFound404}
                /\ ElementsOf(call.answer[1], CallProps[i]) =
                      ElementsOf(EntryUnder(Xml(<<PropEl(<<CallProps[i]>>)>>)), CallProps[i])
                /\ ElementsOf(call.answer[1], CallProps[i]) # {}

\* An item asked for calendar-home-set and getetag: the first is not-found,
\* the second is answered.
C20_Witness ==
    /\ CallAnswered
    /\ ~call.view.is_collection
    /\ CallProps = <<C("calendar-home-set"), D("getetag")>>
    /\ StatusesOf(call.answer[1], C("calendar-home-set")) = {NotFound404}
    /\ \E e \in ElementsOf(call.answer[1], D("getetag")) :
          ~e.is404 /\ e.text = ItemEtag("a")

\* C21: getctag listed explicitly is success, with the resource's etag as
\* value, exactly for a leaf collection tagged VCALENDAR; for an item, a
\* plain collection and a leaf collection tagged VADDRESSBOOK it is
\* not-found.
C21_CtagOfCalendars ==
    CallAnswered =>
    \A i \in 1..Len(CallProps) :
        CallProps[i] = CS("getctag")
        => IF call.view.is_collection /\ GetMeta(call.view, TagKey) = "VCALENDAR"
           THEN /\ StatusesOf(call.answer[1], CS("getctag")) = {Ok200}
                /\ \A e \in ElementsOf(call.answer[1], CS("getctag")) :
                      e.text = call.view.etag
           ELSE StatusesOf(call.answer[1], CS("getctag")) = {NotFound404}

\* The text D:displayname carries for a leaf collection: the stored value,
\* or the path when none is stored or the stored one is empty.
NameOrPath(v) ==
    IF GetMeta(v, DisplayNameKey) \in {None, ""} THEN v.path
    ELSE GetMeta(v, DisplayNameKey)

DisplayNameIs(text) ==
    /\ StatusesOf(call.answer[1], D("displayname")) = {Ok200}
    /\ \A e \in ElementsOf(call.answer[1], D("displayname")) : e.text = text

\* C22 as stated: displayname listed explicitly is success for a leaf
\* collection (stored value, or the path when unset or empty) and not-found
\* for an item and for every plain collection.
C22_DisplayNameOfLeaves ==
    CallAnswered =>
    \A i \in 1..Len(CallProps) :
        CallProps[i] = D("displayname")
        => IF call.view.is_collection /\ IsLeaf(call.view)
           THEN DisplayNameIs(NameOrPath(call.view))
           ELSE StatusesOf(call.answer[1], D("displayname")) = {NotFound404}

\* C22: displayname listed explicitly is success for a leaf collection
\* (stored value, or the path when unset or empty); a plain collection
\* reports the displayname it stores, whatever its value, and not-found when
\* it stores none; an item is not-found.
C22_DisplayNameOfCollections ==
    CallAnswered =>
    \A i \in 1..Len(CallProps) :
        CallProps[i] = D("displayname")
        => IF call.view.is_collection /\ IsLeaf(call.view)
           THEN DisplayNameIs(NameOrPath(call.view))
           ELSE IF call.view.is_collection
                   /\ GetMeta(call.view, DisplayNameKey) # None
           THEN DisplayNameIs(GetMeta(call.view, DisplayNameKey))
           ELSE StatusesOf(call.answer[1], D("displayname")) = {NotFound404}

\* A plain collection that stores a displayname answers it as success.
C22_Witness ==
    /\ CallAnswered
    /\ CallProps = <<D("displayname")>>
    /\ call.view.is_collection
    /\ ~IsLeaf(call.view)
    /\ GetMeta(call.view, DisplayNameKey) = "Work"
    /\ DisplayNameIs("Work")

----------------------------------------------------------------------------
(* Properties of the notifications of DELETE.                              *)

\* The positions of the hook's log that carry the uid.
HandedFor(uid) == {i \in 1..Len(hooklog) : hooklog[i].item.content = uid}

\* C14: the hook gets at most one delete notification per stored item; of
\* two DELETEs of the same path at most one ends 200, and the one that takes
\* the lock after the other's deletion ends not-found and hands nothing
\* over; when both were let through to the deletion's tests and neither
\* failed its precondition, exactly one ends 200 and the other not-found.
C14_NotifiedOnce ==
    /\ \A h \in {HrefOrder[i] : i \in 1..Len(HrefOrder)} :
          /\ Cardinality(HandedFor(Uid(h))) <= 1
          /\ \A i \in HandedFor(Uid(h)) : hooklog[i].item.type = HookDelete
    /\ \A r, d \in Reqs :
          (r # d /\ req[r].method = "DELETE" /\ req[d].method = "DELETE"
           /\ req[r].path = req[d].path /\ Ended(r) /\ Ended(d)
           /\ req[d].result = "OK")
          => /\ req[r].result # "OK"
             /\ (req[r].acquired = 1 /\ req[r].snap # req[d].snap)
                 => (req[r].result = "NOT_FOUND" /\ HandedBy(r) = <<>>)
             /\ (req[r].acquired = 1
                  /\ req[r].result \notin {"NOT_ALLOWED", "PRECONDITION_FAILED"})
                 => (req[r].result = "NOT_FOUND" /\ HandedBy(r) = <<>>)

\* Two DELETEs of item a: one ended 200 and notified, the other not-found.
C14_Witness ==
    \E r, d \in Reqs :
        /\ r # d
        /\ req[r].method = "DELETE" /\ req[d].method = "DELETE"
        /\ req[r].path = Append(PCal, "a") /\ req[d].path = Append(PCal, "a")
        /\ req[r].pc = "done" /\ req[d].pc = "done"
        /\ req[d].result = "OK" /\ req[r].result = "NOT_FOUND"
        /\ Cardinality(HandedFor(Uid("a"))) = 1
        /\ HandedBy(r) = <<>>

\* The uids of the resources a DELETE of res removes, in the storage's
\* enumeration order.
RemovedUids(st, res) ==
    IF res.kind = "collection"
    THEN [i \in 1..Len(Enum(st[res.path].members)) |-> Uid(Enum(st[res.path].members)[i])]
    ELSE <<Uid(Href(res.path))>>

\* C15: a DELETE hands its notifications over in the storage's enumeration
\* order of the removed children, none before the storage deletion has been
\* executed, and all of them before it gives the write lock back and
\* returns 200.
C15_NotificationOrder ==
    \A r \in Reqs :
        req[r].method = "DELETE" =>
        LET q == req[r]
            handed == HandedBy(r)
        IN  /\ handed # <<>>
                => /\ Len(handed) <= Len(RemovedUids(q.snap, q.item))
                   /\ \A i \in 1..Len(handed) :
                         handed[i].content = RemovedUids(q.snap, q.item)[i]
                   /\ q.pc \in {"notify", "release", "done"}
                   /\ Discover(store, q.path, "0") = <<>>
            /\ q.pc = "notify" => (r \in lock.writers /\ q.result = "")
            /\ q.result = "OK"
                => /\ Len(handed) = Len(RemovedUids(q.snap, q.item))
                   /\ q.pc = "release" => r \in lock.writers

\* A DELETE of the calendar is about to give the lock back: its children
\* were notified in enumeration order.
C15_Witness ==
    \E r \in Reqs :
        /\ req[r].method = "DELETE" /\ req[r].path = PCal
        /\ req[r].pc = "release" /\ req[r].result = "OK"
        /\ r \in lock.writers
        /\ Len(HandedBy(r)) = NumItems
        /\ HandedBy(r)[1].content = Uid("a") /\ HandedBy(r)[NumItems].content # Uid("a")

\* The paths of the resources a DELETE of res removes, in enumeration order.
RemovedPaths(st, res) ==
    IF res.kind = "collection"
    THEN [i \in 1..Len(Enum(st[res.path].members)) |->
            Append(res.path, Enum(st[res.path].members)[i])]
    ELSE <<res.path>>

\* C16: every notification of a DELETE carries as point the first two
\* segments of the removed resource's own path, "" when that path has fewer
\* than two segments, for an item delete and for each child of a collection
\* delete.
C16_PointOfRemoved ==
    \A r \in Reqs :
        (req[r].method = "DELETE" /\ req[r].list # <<>>) =>
        \A i \in 1..Len(req[r].list) :
            LET own == RemovedPaths(req[r].snap, req[r].item)[i]
            IN  req[r].list[i].point =
                    (IF Len(own) < 2 THEN "" ELSE own[1] \o "/" \o own[2])

====
